---- MODULE Spec2Model ----
(***************************************************************************)
(* A model of JavaSubmissionTester (src/JVSSTV2_SingleFile.py): the        *)
(* tolerant output comparator, the working-directory allocation of         *)
(* extract_zip, the single-level flattening of an extracted archive, the   *)
(* splitting of wrapper archives by preprocess_nested_zips (also as        *)
(* src/java_submission_tester.py defines it), the entry-point stage of     *)
(* test_submission, and the loop of run_all_tests over the discovered      *)
(* units with test_submission stage by stage.                              *)
(*                                                                         *)
(* Texts, file names and tokens are TLA+ strings; a character is a string  *)
(* of length one.  A directory tree is a function from paths (sequences of *)
(* names, relative to the directory) to "dir" or to the file's content.    *)
(***************************************************************************)
EXTENDS Integers, Sequences, FiniteSets, TLC

VARIABLES
    actual,      \* compare_output: the captured output text
    expected,    \* compare_output: the expected transcript
    cmpDone,     \* compare_output has returned
    verdict,     \* compare_output: the returned (matched, message) pair
    tree,        \* flatten_extraction: the content of extract_path
    treeBefore,  \* the content of extract_path when the last call started
    flCalls,     \* number of flatten_extraction calls made on tree
    flRaised,    \* the last flatten_extraction call raised an exception
    tempDirs,    \* extract_zip: temp_extracts, directory name -> content
    allocs,      \* extract_zip: one record per call, in call order
    leftover,    \* names under temp_extracts before the run started
    subFolder,   \* preprocess_nested_zips: the content of one student folder
    folderBefore,\* the content of the student folder before preprocessing
    draft,       \* which source file's preprocess_nested_zips is running
    spPc,        \* "start", "split" (preprocessed) or "done" (scanned)
    splitLog,    \* one record per visited archive, in visiting order
    scan,        \* the discovery scan that follows preprocessing
    work,        \* test_submission: the content of the working directory
    workBefore,  \* the working directory when the entry-point stage started
    javaOrder,   \* java_files: the source files in discovery order
    resolved,    \* the entry file that resolution chose, or None
    student_main_path,   \* the entry file after normalization, or None
    main_class_name,     \* self.main_class_name: the class run_app runs
    replace_main_file,   \* self.replace_main_file
    normalize_filenames, \* self.normalize_filenames
    masterExists,        \* default_code holds the reference entry file
    epLog,       \* what the entry-point stage logged
    epPc,        \* "start", or "done" once the stage is over
    subsDisk,    \* the submissions tree: <<student folder, file name>> -> unit
    units,       \* run_all_tests: submissions, the discovered units in order
    started,     \* run_all_tests: how many units the loop has taken
    btPc,        \* the position in run_all_tests and test_submission
    result,      \* test_submission: the result of the unit in progress
    test_results,     \* self.test_results
    stop_event,       \* self.stop_event is set
    unit_path,        \* test_submission: extract_path of the unit in progress
    expected_output,  \* self.expected_output is a non-empty text
    remove_packages,  \* self.remove_packages
    trace        \* the stage calls made so far, as <<unit, stage, outcome>>

cmpVars == <<actual, expected, cmpDone, verdict>>
flVars  == <<tree, treeBefore, flCalls, flRaised>>
exVars  == <<tempDirs, allocs, leftover>>
spVars  == <<subFolder, folderBefore, draft, spPc, splitLog, scan>>
epVars  == <<work, workBefore, javaOrder, resolved, student_main_path,
             main_class_name, replace_main_file, normalize_filenames,
             masterExists, epLog, epPc>>
btVars  == <<subsDisk, units, started, btPc, result, test_results,
             stop_event, unit_path, expected_output, remove_packages, trace>>
restVars == <<spVars, epVars, btVars>>
vars    == <<actual, expected, cmpDone, verdict, tree, treeBefore, flCalls,
             flRaised, tempDirs, allocs, leftover, subFolder, folderBefore,
             draft, spPc, splitLog, scan, work, workBefore, javaOrder, resolved,
             student_main_path, main_class_name, replace_main_file,
             normalize_filenames, masterExists, epLog, epPc, subsDisk, units,
             started, btPc, result, test_results, stop_event, unit_path,
             expected_output, remove_packages, trace>>

(***************************************************************************)
(* Bounds of the model.                                                    *)
(***************************************************************************)
MaxLines == 3
MaxFlattenCalls == 2
MaxExtractCalls == 2
MaxLeftover == 2

(***************************************************************************)
(* Strings.                                                                *)
(***************************************************************************)
Char(s, i) == SubSeq(s, i, i)

Min(a, b) == IF a <= b THEN a ELSE b

Max(a, b) == IF a >= b THEN a ELSE b

Abs(n) == IF n < 0 THEN -n ELSE n

RECURSIVE Pow10(_)
Pow10(n) == IF n <= 0 THEN 1 ELSE 10 * Pow10(n - 1)

UpperLetters == "ABCDEFGHIJKLMNOPQRSTUVWXYZ"

LowerLetters == "abcdefghijklmnopqrstuvwxyz"

Digits == "0123456789"

\* the 1-based position of character c in s, 0 when absent
IndexIn(s, c) ==
    IF \E i \in 1..Len(s) : Char(s, i) = c
    THEN CHOOSE i \in 1..Len(s) : Char(s, i) = c
    ELSE 0

IsDigit(c) == IndexIn(Digits, c) > 0

IsLetter(c) == IndexIn(UpperLetters, c) > 0 \/ IndexIn(LowerLetters, c) > 0

\* \s of the regular expression, and what str.strip / str.split remove
Whitespace == {" ", "\t", "\n", "\r", "\f"}

\* the line boundaries of str.splitlines that the texts of the model use
LineBreaks == {"\n", "\r", "\f"}

\* str.lower on one character
LowerChar(c) ==
    IF IndexIn(UpperLetters, c) > 0
    THEN Char(LowerLetters, IndexIn(UpperLetters, c))
    ELSE c

RECURSIVE lower(_)
lower(s) == IF s = "" THEN "" ELSE LowerChar(Head(s)) \o lower(Tail(s))

\* str.splitlines: the lines of s without their terminators; "\r\n" is one
\* terminator, and a terminator at the very end opens no further line
RECURSIVE SplitFrom(_, _, _)
SplitFrom(s, start, i) ==
    IF i > Len(s)
    THEN IF start <= Len(s) THEN <<SubSeq(s, start, Len(s))>> ELSE <<>>
    ELSE IF Char(s, i) = "\r" /\ i < Len(s) /\ Char(s, i + 1) = "\n"
         THEN <<SubSeq(s, start, i - 1)>> \o SplitFrom(s, i + 2, i + 2)
         ELSE IF Char(s, i) \in LineBreaks
              THEN <<SubSeq(s, start, i - 1)>> \o SplitFrom(s, i + 1, i + 1)
              ELSE SplitFrom(s, start, i + 1)

splitlines(s) == SplitFrom(s, 1, 1)

RECURSIVE lstrip(_)
lstrip(s) ==
    IF s # "" /\ Head(s) \in Whitespace THEN lstrip(Tail(s)) ELSE s

RECURSIVE rstrip(_)
rstrip(s) ==
    IF s # "" /\ Char(s, Len(s)) \in Whitespace
    THEN rstrip(SubSeq(s, 1, Len(s) - 1))
    ELSE s

strip(s) == rstrip(lstrip(s))

\* str.split(): the maximal runs of non-whitespace characters
RECURSIVE SplitWords(_, _)
SplitWords(s, word) ==
    IF s = ""
    THEN IF word = "" THEN <<>> ELSE <<word>>
    ELSE IF Head(s) \in Whitespace
         THEN (IF word = "" THEN <<>> ELSE <<word>>) \o SplitWords(Tail(s), "")
         ELSE SplitWords(Tail(s), word \o Head(s))

split(s) == SplitWords(s, "")

(***************************************************************************)
(* compare_output.                                                         *)
(***************************************************************************)
\* a cleaner that deletes the period with the rest of the punctuation
KeptBySoftClean_DropsPeriod(c) == IsLetter(c) \/ IsDigit(c) \/ c \in Whitespace

\* re.sub(r'[^a-zA-Z0-9.\s]', '', text): the characters that survive
KeptBySoftClean(c) == IsLetter(c) \/ IsDigit(c) \/ c = "." \/ c \in Whitespace

RECURSIVE RemovePunctuation(_)
RemovePunctuation(s) ==
    IF s = ""
    THEN ""
    ELSE (IF KeptBySoftClean(Head(s)) THEN Head(s) ELSE "")
             \o RemovePunctuation(Tail(s))

soft_clean(text) == split(lower(RemovePunctuation(text)))

AllDigits(s) == \A i \in 1..Len(s) : IsDigit(Char(s, i))

RECURSIVE ParseNat(_)
ParseNat(s) ==
    IF s = ""
    THEN 0
    ELSE 10 * ParseNat(SubSeq(s, 1, Len(s) - 1))
             + (IndexIn(Digits, Char(s, Len(s))) - 1)

RECURSIVE WithoutDot(_)
WithoutDot(s) ==
    IF s = ""
    THEN ""
    ELSE (IF Head(s) = "." THEN "" ELSE Head(s)) \o WithoutDot(Tail(s))

\* float(tok) for a soft-cleaned token (lower case letters, digits, periods):
\* kind "err" is ValueError; a finite value is mant * 10^exp
NotANumber == [kind |-> "err", mant |-> 0, exp |-> 0]

ParseDecimal(m, x) ==
    LET dot == IndexIn(m, ".")
        digs == WithoutDot(m)
        frac == IF dot = 0 THEN 0 ELSE Len(m) - dot
    IN  IF digs # "" /\ AllDigits(digs) /\ Len(m) - Len(digs) <= 1
        THEN [kind |-> "finite", mant |-> ParseNat(digs),
              exp |-> ParseNat(x) - frac]
        ELSE NotANumber

float(tok) ==
    LET e == IndexIn(tok, "e")
    IN  IF tok \in {"inf", "infinity"}
        THEN [kind |-> "inf", mant |-> 0, exp |-> 0]
        ELSE IF tok = "nan"
        THEN [kind |-> "nan", mant |-> 0, exp |-> 0]
        ELSE IF e = 0
        THEN ParseDecimal(tok, "")
        ELSE IF e < Len(tok) /\ AllDigits(SubSeq(tok, e + 1, Len(tok)))
        THEN ParseDecimal(SubSeq(tok, 1, e - 1), SubSeq(tok, e + 1, Len(tok)))
        ELSE NotANumber

\* the tolerance of the numeric check, in hundredths
ToleranceHundredths == 2

\* Pairs of tokens whose decimal values differ by exactly 0.02 and whose
\* IEEE-754 doubles differ by more than the double 0.02 (3.14 - 3.12 is
\* 0.020000000000000018 in binary64, while 0.03 - 0.01 is
\* 0.019999999999999997).
BinaryDiffAboveTolerance == {{"3.12", "3.14"}, {"3.10", "3.12"}}

\* abs(float(a_tok) - float(e_tok)) > 0.02 for two tokens that both parse.
\* An infinity minus an infinity and anything minus a nan is a nan, and
\* every comparison with a nan is False.
DiffExceedsTolerance(a_tok, e_tok) ==
    LET a == float(a_tok)
        e == float(e_tok)
        c == Min(Min(a.exp, e.exp), -2)
        d == Abs(a.mant * Pow10(a.exp - c) - e.mant * Pow10(e.exp - c))
        t == ToleranceHundredths * Pow10(-2 - c)
    IN  IF a.kind = "nan" \/ e.kind = "nan"
        THEN FALSE
        ELSE IF a.kind = "inf" \/ e.kind = "inf"
        THEN a.kind # e.kind
        ELSE d > t \/ (d = t /\ {a_tok, e_tok} \in BinaryDiffAboveTolerance)

\* one iteration of the token loop: the try block, and the except branch
\* taken when either float() raises ValueError
TokenPairMatches(a_tok, e_tok) ==
    IF float(a_tok).kind # "err" /\ float(e_tok).kind # "err"
    THEN ~DiffExceedsTolerance(a_tok, e_tok)
    ELSE a_tok = e_tok

\* is_match for two stripped lines
TokensMatch(act_tokens, exp_tokens) ==
    /\ Len(act_tokens) = Len(exp_tokens)
    /\ \A k \in 1..Len(act_tokens) :
           TokenPairMatches(act_tokens[k], exp_tokens[k])

NoVerdict == [matched |-> FALSE, line |-> 0, kind |-> "none",
              exp_raw |-> "", act_raw |-> ""]

\* a report that numbers the lines from zero
LineNum_ZeroBased(i) == i

\* line_num of iteration i
LineNum(i) == i + 1

\* a loop that stops at the end of the shorter text
MaxLinesOf_Shorter(actual_lines, expected_lines) ==
    Min(Len(actual_lines), Len(expected_lines))

\* max_lines, the number of loop iterations
MaxLinesOf(actual_lines, expected_lines) ==
    Max(Len(actual_lines), Len(expected_lines))

\* the for loop from index i (0-based, as in the source)
RECURSIVE ScanLines(_, _, _)
ScanLines(actual_lines, expected_lines, i) ==
    IF i >= MaxLinesOf(actual_lines, expected_lines)
    THEN [matched |-> TRUE, line |-> 0, kind |-> "match",
          exp_raw |-> "", act_raw |-> ""]
    ELSE IF i >= Len(actual_lines) \/ i >= Len(expected_lines)
    THEN [matched |-> FALSE, line |-> LineNum(i), kind |-> "ended",
          exp_raw |-> "", act_raw |-> ""]
    ELSE LET act_line == strip(actual_lines[i + 1])
             exp_line == strip(expected_lines[i + 1])
         IN  IF act_line = "" /\ exp_line = ""
             THEN ScanLines(actual_lines, expected_lines, i + 1)
             ELSE IF TokensMatch(soft_clean(act_line), soft_clean(exp_line))
             THEN ScanLines(actual_lines, expected_lines, i + 1)
             ELSE [matched |-> FALSE, line |-> LineNum(i), kind |-> "mismatch",
                   exp_raw |-> expected_lines[i + 1],
                   act_raw |-> actual_lines[i + 1]]

compare_output(act, exp) == ScanLines(splitlines(act), splitlines(exp), 0)

(***************************************************************************)
(* The inputs of compare_output that the model explores.                   *)
(***************************************************************************)
RECURSIVE Join(_, _)
Join(lines, sep) ==
    IF lines = <<>>
    THEN ""
    ELSE IF Len(lines) = 1
         THEN lines[1]
         ELSE lines[1] \o sep \o Join(Tail(lines), sep)

SeqsUpTo(S, n) == UNION {[1..k -> S] : k \in 0..n}

\* one-line texts: the examples of the specification and their neighbours
SingleTexts ==
    {"Price: $29.99", "Price 2999", "Price 29.99", "PRICE, 29.98!",
     "3.14159", "3.14", "3.10", "3.12", "abc", "abd", "NaN", "3.5",
     "0.01", "0.03", "inf", "Infinity", "1e2", "100", "5.", "1.2.3", "---",
     "a b", ""}

\* the lines of the texts of several lines
MultiLines == {"abc", "abd", ""}

MultiTexts ==
    {Join(ls, "\n") : ls \in SeqsUpTo(MultiLines, MaxLines)}
        \cup {"abc\r\nabd", "abc\r\n\r\nabd", "abc\n \nabd", "abc\n\t", " \nabc"}

CmpInputs == (SingleTexts \X SingleTexts) \cup (MultiTexts \X MultiTexts)

CmpIdle ==
    /\ actual = ""
    /\ expected = ""
    /\ cmpDone = FALSE
    /\ verdict = NoVerdict

CmpInit ==
    /\ \E p \in CmpInputs : actual = p[1] /\ expected = p[2]
    /\ cmpDone = FALSE
    /\ verdict = NoVerdict

\* one call compare_output(actual, expected)
CompareOutput ==
    /\ ~cmpDone
    /\ cmpDone' = TRUE
    /\ verdict' = compare_output(actual, expected)
    /\ UNCHANGED <<actual, expected, flVars, exVars, restVars>>

(***************************************************************************)
(* The comparator alone: compare_output applied to each explored input.    *)
(***************************************************************************)
FlIdle ==
    /\ tree = <<>>
    /\ treeBefore = <<>>
    /\ flCalls = 0
    /\ flRaised = FALSE

ExIdle ==
    /\ tempDirs = <<>>
    /\ allocs = <<>>
    /\ leftover = {}

SpIdle ==
    /\ subFolder = <<>>
    /\ folderBefore = <<>>
    /\ draft = ""
    /\ spPc = "idle"
    /\ splitLog = <<>>
    /\ scan = {}

EpIdle ==
    /\ work = <<>>
    /\ workBefore = <<>>
    /\ javaOrder = <<>>
    /\ resolved = <<>>
    /\ student_main_path = <<>>
    /\ main_class_name = ""
    /\ replace_main_file = FALSE
    /\ normalize_filenames = FALSE
    /\ masterExists = FALSE
    /\ epLog = <<>>
    /\ epPc = "idle"

BtIdle ==
    /\ subsDisk = <<>>
    /\ units = <<>>
    /\ started = 0
    /\ btPc = "idle"
    /\ result = <<>>
    /\ test_results = <<>>
    /\ stop_event = FALSE
    /\ unit_path = ""
    /\ expected_output = FALSE
    /\ remove_packages = FALSE
    /\ trace = <<>>

RestIdle == SpIdle /\ EpIdle /\ BtIdle

InitCompare == CmpInit /\ FlIdle /\ ExIdle /\ RestIdle

NextCompare == CompareOutput

SpecCompare == InitCompare /\ [][NextCompare]_vars

\* the lines of the two texts and the per-line test of the comparator
ActualLines == splitlines(actual)

ExpectedLines == splitlines(expected)

BothBlank(i) ==
    strip(ActualLines[i]) = "" /\ strip(ExpectedLines[i]) = ""

\* the aligned lines at 1-based index i fail: one text has ended, or the
\* lines are not both blank and their cleaned tokens do not match
LineFails(i) ==
    \/ i > Len(ActualLines)
    \/ i > Len(ExpectedLines)
    \/ /\ ~BothBlank(i)
       /\ ~TokensMatch(soft_clean(strip(ActualLines[i])),
                       soft_clean(strip(ExpectedLines[i])))

FailingLines ==
    {i \in 1..Max(Len(ActualLines), Len(ExpectedLines)) : LineFails(i)}

\* C1 (as stated): compare_output("Price: $29.99", "Price 2999") returns
\* matched = true.
C1_PriceExampleMatches ==
    (cmpDone /\ actual = "Price: $29.99" /\ expected = "Price 2999")
        => verdict.matched

\* C1 (amended): compare_output("Price: $29.99", "Price 2999") returns
\* matched = false with the mismatch at line 1, because the period survives
\* soft-cleaning and 29.99 is not within 0.02 of 2999; with the period kept,
\* compare_output("Price: $29.99", "Price 29.99") returns matched = true, the
\* colon and the dollar sign being insignificant.
C1_PriceExamplePeriodKept ==
    cmpDone =>
        /\ (actual = "Price: $29.99" /\ expected = "Price 2999")
               => (~verdict.matched /\ verdict.line = 1)
        /\ (actual = "Price: $29.99" /\ expected = "Price 29.99")
               => verdict.matched

C1_Witness ==
    cmpDone /\ actual = "Price: $29.99" /\ expected = "Price 2999"

\* the token rule as the specification states it: two real numbers match when
\* their difference is at most 0.02, any other pair when it is identical
ClaimedPairMatches(a_tok, e_tok) ==
    LET a == float(a_tok)
        e == float(e_tok)
        c == Min(Min(a.exp, e.exp), -2)
        d == Abs(a.mant * Pow10(a.exp - c) - e.mant * Pow10(e.exp - c))
    IN  IF a.kind = "finite" /\ e.kind = "finite"
        THEN d <= ToleranceHundredths * Pow10(-2 - c)
        ELSE a_tok = e_tok

OneLineEach == Len(ActualLines) = 1 /\ Len(ExpectedLines) = 1

\* C2: two soft-cleaned lines match if and only if they have the same number
\* of tokens and every aligned pair matches, a pair of numbers matching
\* exactly when its absolute difference is <= 0.02 (exactly 0.02 included)
\* and any other pair exactly when the two tokens are identical.
C2_TokenRule ==
    (cmpDone /\ OneLineEach /\ ~BothBlank(1)) =>
        LET a == soft_clean(strip(ActualLines[1]))
            e == soft_clean(strip(ExpectedLines[1]))
        IN  verdict.matched <=>
                /\ Len(a) = Len(e)
                /\ \A k \in 1..Len(a) : ClaimedPairMatches(a[k], e[k])

\* C3: a mismatch is reported at the smallest 1-based index whose aligned
\* lines fail, a match is reported if and only if no index fails, and an
\* index where both lines are blank after stripping never fails and keeps
\* its place in the numbering.
C3_FirstFailingLine ==
    cmpDone =>
        /\ verdict.matched <=> FailingLines = {}
        /\ ~verdict.matched =>
               /\ verdict.line \in FailingLines
               /\ \A j \in FailingLines : verdict.line <= j
        /\ \A i \in 1..Min(Len(ActualLines), Len(ExpectedLines)) :
               BothBlank(i) => verdict.line # i

C3_Witness ==
    /\ cmpDone
    /\ ~verdict.matched
    /\ verdict.kind = "mismatch"
    /\ verdict.line = 3
    /\ BothBlank(2)
    /\ ~BothBlank(1)

\* C4: when the texts have different numbers of lines and each of the first
\* min(len) aligned pairs matches, the result is a mismatch at line
\* min(len) + 1, also when every extra line of the longer text is blank.
C4_EarlyEnd ==
    LET n == Min(Len(ActualLines), Len(ExpectedLines))
    IN  (/\ cmpDone
         /\ Len(ActualLines) # Len(ExpectedLines)
         /\ \A i \in 1..n : ~LineFails(i))
            => (~verdict.matched /\ verdict.line = n + 1)

C4_Witness ==
    LET n == Min(Len(ActualLines), Len(ExpectedLines))
        m == Max(Len(ActualLines), Len(ExpectedLines))
        longer == IF Len(ActualLines) > n THEN ActualLines ELSE ExpectedLines
    IN  /\ cmpDone
        /\ n >= 1
        /\ m > n
        /\ \A i \in 1..n : ~LineFails(i)
        /\ \A i \in (n + 1)..m : strip(longer[i]) = ""
        /\ verdict.line = n + 1

(***************************************************************************)
(* Directory trees.                                                        *)
(***************************************************************************)
\* the value of a path that is a directory; any other value is the content
\* of a regular file
Dir == "<dir>"

EmptyTree == <<>>

IsPrefix(p, q) == Len(p) <= Len(q) /\ SubSeq(q, 1, Len(p)) = p

\* Path.exists and Path.is_dir, for a path relative to the tree's root
Exists(t, p) == p \in DOMAIN t

IsDirAt(t, p) == Exists(t, p) /\ t[p] = Dir

\* the names listed by iterdir on directory p (p = <<>> is the root)
Entries(t, p) ==
    {q[Len(p) + 1] : q \in {r \in DOMAIN t : Len(r) = Len(p) + 1 /\ IsPrefix(p, r)}}

\* shutil.rmtree(p)
Rmtree(t, p) == [q \in {r \in DOMAIN t : ~IsPrefix(p, r)} |-> t[q]]

\* os.rename(from, to) where to does not exist: the whole subtree moves
Rename(t, from, to) ==
    LET moved == {r \in DOMAIN t : IsPrefix(from, r)}
        kept == DOMAIN t \ moved
        Back(q) == from \o SubSeq(q, Len(to) + 1, Len(q))
        target == {to \o SubSeq(r, Len(from) + 1, Len(r)) : r \in moved}
    IN  [q \in kept \cup target |-> IF q \in kept THEN t[q] ELSE t[Back(q)]]

\* str.startswith
StartsWith(s, prefix) ==
    Len(s) >= Len(prefix) /\ SubSeq(s, 1, Len(prefix)) = prefix

(***************************************************************************)
(* flatten_extraction.                                                     *)
(***************************************************************************)
TempUnwrap == "TEMP_UNWRAP_FOLDER"

\* items: the entries of extract_path that are not system files
VisibleItems(t) ==
    {n \in Entries(t, <<>>) :
        n \notin {"__MACOSX", ".DS_Store"} /\ ~StartsWith(n, "._")}

\* a test that hoists the first directory whenever one is visible
ShouldHoist_AnyDirectory(t) ==
    \E n \in VisibleItems(t) : IsDirAt(t, <<n>>)

\* len(items) == 1 and items[0].is_dir()
ShouldHoist(t) ==
    /\ Cardinality(VisibleItems(t)) = 1
    /\ \A n \in VisibleItems(t) : IsDirAt(t, <<n>>)

\* items[0] when the test above holds
ContainerOf(t) == CHOOSE n \in VisibleItems(t) : IsDirAt(t, <<n>>)

\* shutil.move(sub_item, extract_path) inside its try block: the item is
\* renamed into the root unless its name is taken there, in which case
\* shutil.Error is raised, logged, and the item stays where it is
MoveToRoot(t, name) ==
    IF Exists(t, <<name>>)
    THEN t
    ELSE Rename(t, <<TempUnwrap, name>>, <<name>>)

\* the loop over temp_container.iterdir(); the moved names are distinct, so
\* the order of the iteration does not change the result
RECURSIVE MoveAll(_, _)
MoveAll(t, names) ==
    IF names = {}
    THEN t
    ELSE LET n == CHOOSE x \in names : TRUE
         IN  MoveAll(MoveToRoot(t, n), names \ {n})

\* temp_container.rmdir() inside try/except: only an empty directory goes
RmdirTemp(t) ==
    IF Entries(t, <<TempUnwrap>>) = {}
    THEN Rmtree(t, <<TempUnwrap>>)
    ELSE t

\* flatten_extraction(extract_path): the tree afterwards, and whether the
\* call raised (container_dir.rename on a path that rmtree just removed)
flatten_extraction(t) ==
    IF ~ShouldHoist(t)
    THEN [tree |-> t, raised |-> FALSE]
    ELSE LET container_dir == ContainerOf(t)
             cleared == IF Exists(t, <<TempUnwrap>>)
                        THEN Rmtree(t, <<TempUnwrap>>)
                        ELSE t
         IN  IF ~Exists(cleared, <<container_dir>>)
             THEN [tree |-> cleared, raised |-> TRUE]
             ELSE LET renamed == Rename(cleared, <<container_dir>>, <<TempUnwrap>>)
                      moved == MoveAll(renamed, Entries(renamed, <<TempUnwrap>>))
                  IN  [tree |-> RmdirTemp(moved), raised |-> FALSE]

(***************************************************************************)
(* The directory trees that the model explores.  A shape is a set of       *)
(* <<path, is_dir>> pairs; a file's content names the path it was          *)
(* extracted at, so that two files of the same name stay distinguishable.  *)
(***************************************************************************)
PathText(p) == Join(p, "/")

MkTree(shape) ==
    [p \in {x[1] : x \in shape} |->
        IF (CHOOSE x \in shape : x[1] = p)[2] THEN Dir ELSE PathText(p)]

\* the shape as the content of a directory called name
Under(name, shape) ==
    {<<(<<name>>), TRUE>>} \cup {<<(<<name>>) \o x[1], x[2]>> : x \in shape}

FileShape(name) == {<<(<<name>>), FALSE>>}

\* what a container directory may hold
InnerShapes ==
    {FileShape("Main.java"),
     FileShape(".DS_Store"),
     Under("Lab1", FileShape("Helper.java")),
     Under(TempUnwrap, FileShape("X.java"))}

\* what the root may hold beside the container
RootShapes ==
    {FileShape(".DS_Store"),
     FileShape("._notes"),
     FileShape("Main.java"),
     Under("__MACOSX", FileShape("._Main.java")),
     Under("docs", FileShape("Readme.java"))}

ContainerNames == {"Lab1", TempUnwrap}

FlattenInputs ==
    {MkTree(UNION rs) : rs \in SUBSET RootShapes}
        \cup {MkTree((UNION rs) \cup Under(c, UNION is)) :
                 rs \in SUBSET RootShapes, c \in ContainerNames,
                 is \in SUBSET InnerShapes}

(***************************************************************************)
(* The flattener alone: flatten_extraction called on a working directory,  *)
(* up to MaxFlattenCalls times in a row.                                   *)
(***************************************************************************)
FlattenExtraction ==
    /\ flCalls < MaxFlattenCalls
    /\ treeBefore' = tree
    /\ tree' = flatten_extraction(tree).tree
    /\ flRaised' = flatten_extraction(tree).raised
    /\ flCalls' = flCalls + 1
    /\ UNCHANGED <<cmpVars, exVars, restVars>>

InitFlatten ==
    /\ tree \in FlattenInputs
    /\ treeBefore = EmptyTree
    /\ flCalls = 0
    /\ flRaised = FALSE
    /\ CmpIdle
    /\ ExIdle
    /\ RestIdle

NextFlatten == FlattenExtraction

SpecFlatten == InitFlatten /\ [][NextFlatten]_vars

\* the visible entries of a working directory are exactly one directory
SingleVisibleDirectory(t) ==
    \E d \in Entries(t, <<>>) :
        /\ VisibleItems(t) = {d}
        /\ t[<<d>>] = Dir

TheDirectory(t) == CHOOSE d \in VisibleItems(t) : TRUE

\* every entry of directory d of tree before, with all that it holds, is at
\* the root of tree after
HoistedTo(before, after, d) ==
    \A p \in DOMAIN before :
        (Len(p) >= 2 /\ p[1] = d) =>
            /\ Tail(p) \in DOMAIN after
            /\ after[Tail(p)] = before[p]

\* C7: flatten_extraction hoists if and only if the entries of the working
\* directory, metadata aside, are exactly one directory and nothing else,
\* and leaves the working directory unchanged in every other case.
C7_HoistsIffSingleDirectory ==
    flCalls >= 1 =>
        IF SingleVisibleDirectory(treeBefore)
        THEN /\ ~flRaised
             /\ HoistedTo(treeBefore, tree, TheDirectory(treeBefore))
        ELSE tree = treeBefore

\* C8: after one call on a working directory whose only visible entry is a
\* directory D, the root holds exactly the original entries of D (beside
\* the metadata entries it already had), none is lost, and no temporary
\* container is left behind.
C8_RootEqualsContainerEntries ==
    (flCalls >= 1 /\ SingleVisibleDirectory(treeBefore)) =>
        LET d == TheDirectory(treeBefore)
        IN  /\ HoistedTo(treeBefore, tree, d)
            /\ Entries(tree, <<>>) =
                   Entries(treeBefore, <<d>>)
                       \cup (Entries(treeBefore, <<>>) \ {d})
            /\ Exists(tree, <<TempUnwrap>>)
                   => Exists(treeBefore, <<d, TempUnwrap>>)

\* C9: a call on a working directory that is already flat (its visible
\* entries are not exactly one directory), such as a second call after a
\* hoist, changes nothing and raises nothing.
C9_FlatIsUnchanged ==
    (flCalls >= 1 /\ ~SingleVisibleDirectory(treeBefore)) =>
        (tree = treeBefore /\ ~flRaised)

C9_Witness ==
    /\ flCalls = 2
    /\ ~SingleVisibleDirectory(treeBefore)
    /\ Exists(tree, <<"Main.java">>)
    /\ tree[<<"Main.java">>] = "Lab1/Main.java"
    /\ tree = treeBefore

(***************************************************************************)
(* extract_zip.                                                            *)
(***************************************************************************)
\* str(counter)
RECURSIVE ToDecimal(_)
ToDecimal(n) ==
    IF n < 10
    THEN Char(Digits, n + 1)
    ELSE ToDecimal(n \div 10) \o Char(Digits, (n % 10) + 1)

\* f"{student_id}_{counter}"
DirName(student_id, counter) == student_id \o "_" \o ToDecimal(counter)

\* a search that takes the counter it is given without looking
FirstFree_NoSearch(existing, student_id, counter) == counter

\* a search that counts the names in use instead of probing each
FirstFree_CountsExisting(existing, student_id, counter) ==
    counter + Cardinality({k \in 1..(Cardinality(existing) + 1) :
                              DirName(student_id, k) \in existing})

\* counter = 1; while (temp_extract_dir / name).exists(): counter += 1
RECURSIVE FirstFree(_, _, _)
FirstFree(existing, student_id, counter) ==
    IF DirName(student_id, counter) \in existing
    THEN FirstFree(existing, student_id, counter + 1)
    ELSE counter

\* a flattening that is repeated while a single directory remains
RECURSIVE FlattenAfterExtract_Repeated(_)
FlattenAfterExtract_Repeated(t) ==
    LET once == flatten_extraction(t)
    IN  IF once.raised \/ once.tree = t
        THEN once
        ELSE FlattenAfterExtract_Repeated(once.tree)

\* self.flatten_extraction(extract_path), called once after extractall
FlattenAfterExtract(t) == flatten_extraction(t)

\* extractall / shutil.copy into extract_path: members replace what is there
WriteInto(base, members) == members @@ base

\* the content of extract_path and the outcome of one call: for an archive
\* extractall then one flatten; for a loose file one copy; a file that
\* cannot be opened leaves the fresh directory empty and returns None
ExtractInto(base, unit) ==
    IF unit.kind = "zip"
    THEN LET fl == FlattenAfterExtract(WriteInto(base, unit.tree))
         IN  [tree |-> fl.tree, returned |-> ~fl.raised]
    ELSE IF unit.kind = "java"
    THEN [tree |-> WriteInto(base, unit.tree), returned |-> TRUE]
    ELSE [tree |-> base, returned |-> FALSE]

\* one call extract_zip(zip_path, student_id)
extract_zip(unit, student_id) ==
    LET counter == FirstFree(DOMAIN tempDirs, student_id, 1)
        extract_path == DirName(student_id, counter)
        base == IF extract_path \in DOMAIN tempDirs
                THEN tempDirs[extract_path]
                ELSE EmptyTree
        out == ExtractInto(base, unit)
    IN  /\ tempDirs' = [n \in DOMAIN tempDirs \cup {extract_path} |->
                           IF n = extract_path THEN out.tree ELSE tempDirs[n]]
        /\ allocs' = Append(allocs,
               [student_id |-> student_id, unit |-> unit, counter |-> counter,
                extract_path |-> extract_path, existing |-> DOMAIN tempDirs,
                returned |-> out.returned])
        /\ UNCHANGED <<leftover, cmpVars, flVars, spVars, epVars>>

(***************************************************************************)
(* The submission units and the temp root that the model explores.         *)
(***************************************************************************)
Chain(a, b, shape) == Under(a, Under(b, shape))

Archive(name, shape) == [name |-> name, kind |-> "zip", tree |-> MkTree(shape)]

ArchiveUnits ==
    {Archive("flat.zip", FileShape("Main.java")),
     Archive("lab.zip", Under("Lab1", FileShape("Main.java"))),
     Archive("chain.zip", Chain("A", "B", FileShape("Main.java"))),
     Archive("chain_same.zip", Chain("A", "A", FileShape("Main.java"))),
     Archive("chain_deep.zip",
             Chain("A", "B", Under("C", FileShape("Main.java")))),
     Archive("chain_temp_outer.zip",
             Chain(TempUnwrap, "B", FileShape("Main.java"))),
     Archive("chain_temp_inner.zip",
             Chain("A", TempUnwrap, FileShape("Main.java")))}

BrokenUnits == {[name |-> "broken.zip", kind |-> "badzip", tree |-> EmptyTree]}

LooseUnits ==
    {[name |-> "Main.java", kind |-> "java",
      tree |-> MkTree(FileShape("Main.java"))]}

Students == {"s1", "s1_1"}

LeftoverNames == {"s1_1", "s1_2", "s1_1_1"}

LeftoverTree == MkTree(FileShape("old.class"))

ExtractArchive ==
    /\ Len(allocs) < MaxExtractCalls
    /\ \E student_id \in Students, unit \in ArchiveUnits \cup BrokenUnits :
           extract_zip(unit, student_id)
    /\ UNCHANGED btVars

ExtractLooseFile ==
    /\ Len(allocs) < MaxExtractCalls
    /\ \E student_id \in Students, unit \in LooseUnits :
           extract_zip(unit, student_id)
    /\ UNCHANGED btVars

InitExtract ==
    /\ leftover \in {l \in SUBSET LeftoverNames : Cardinality(l) <= MaxLeftover}
    /\ tempDirs = [n \in leftover |-> LeftoverTree]
    /\ allocs = <<>>
    /\ CmpIdle
    /\ FlIdle
    /\ RestIdle

NextExtract == ExtractArchive \/ ExtractLooseFile

SpecExtract == InitExtract /\ [][NextExtract]_vars

\* C5: no two extract_zip calls of a run are given the same working
\* directory, whether they are for the same student or for different ones.
C5_DistinctWorkingDirectories ==
    \A i, j \in 1..Len(allocs) :
        i # j => allocs[i].extract_path # allocs[j].extract_path

C5_Witness ==
    /\ Len(allocs) >= 2
    /\ allocs[1].student_id = allocs[2].student_id
    /\ allocs[1].returned
    /\ allocs[2].returned
    /\ allocs[1].extract_path # allocs[2].extract_path

\* C6: the working directory is {student_id}_{n} for the smallest positive n
\* whose name does not exist under the temp root when the call is made, and
\* a directory left by an earlier run is neither reused nor written into.
C6_SmallestFreeCounter ==
    /\ \A i \in 1..Len(allocs) :
           LET a == allocs[i]
           IN  /\ a.counter >= 1
               /\ a.extract_path = DirName(a.student_id, a.counter)
               /\ a.extract_path \notin a.existing
               /\ \A k \in 1..(a.counter - 1) :
                      DirName(a.student_id, k) \in a.existing
    /\ \A n \in leftover :
           /\ n \in DOMAIN tempDirs
           /\ tempDirs[n] = LeftoverTree
           /\ \A i \in 1..Len(allocs) : allocs[i].extract_path # n

C6_Witness ==
    \E i \in 1..Len(allocs) :
        /\ allocs[i].returned
        /\ allocs[i].counter = 3
        /\ allocs[i].student_id = "s1"
        /\ {"s1_1", "s1_2"} \subseteq allocs[i].existing
        /\ "s1_2" \in leftover

\* the archive is a chain a/b/<entries>: one directory holding one directory
IsChain(t, a, b) ==
    /\ Entries(t, <<>>) = {a}
    /\ IsDirAt(t, <<a>>)
    /\ Entries(t, <<a>>) = {b}
    /\ IsDirAt(t, <<a, b>>)
    /\ Entries(t, <<a, b>>) # {}

MaxFolderEntries == 2

JavaEntry(id) == [kind |-> "java", id |-> id, members |-> <<>>]

ZipEntry(id, members) == [kind |-> "zip", id |-> id, members |-> members]

JunkEntry(id) == [kind |-> "junk", id |-> id, members |-> <<>>]

Member(name, data, bad) == [name |-> name, data |-> data, bad |-> bad]

\* str.endswith
EndsWith(s, suffix) ==
    Len(s) >= Len(suffix)
    /\ SubSeq(s, Len(s) - Len(suffix) + 1, Len(s)) = suffix

RECURSIVE SplitSlash(_, _, _)
\* the parts of a member name, as pathlib splits it on "/"
SplitSlash(s, start, i) ==
    IF i > Len(s)
    THEN IF start <= Len(s) THEN <<SubSeq(s, start, Len(s))>> ELSE <<>>
    ELSE IF Char(s, i) = "/"
         THEN (IF start < i THEN <<SubSeq(s, start, i - 1)>> ELSE <<>>)
                  \o SplitSlash(s, i + 1, i + 1)
         ELSE SplitSlash(s, start, i + 1)

\* parent_dir / member, relative to the student folder
MemberPath(member) == SplitSlash(member, 1, 1)

Last(seq) == seq[Len(seq)]

\* f"{student_id}_{Path(member).name}"
DestName(student_id, member) == student_id \o "_" \o Last(MemberPath(member))

RECURSIVE LastDot(_, _)
LastDot(s, i) ==
    IF i <= 1 THEN 0 ELSE IF Char(s, i) = "." THEN i ELSE LastDot(s, i - 1)

SuffixFrom(name, dot) ==
    IF dot = 0 \/ dot = Len(name) THEN "" ELSE SubSeq(name, dot, Len(name))

\* Path.suffix: from the last dot of the name, unless the name starts there
Suffix(name) == SuffixFrom(name, LastDot(name, Len(name)))

\* zip_path.with_suffix(".zip.original")
BackupName(name) ==
    SubSeq(name, 1, Len(name) - Len(Suffix(name))) \o ".zip.original"

\* the top-level names of the student folder
TopNames(f) == {p[1] : p \in {q \in DOMAIN f : Len(q) = 1}}

\* student_folder.glob("*.zip") and, in JVSSTV2_SingleFile.py, glob("*.java")
find_submissions(f, d) ==
    {n \in TopNames(f) :
        \/ EndsWith(n, ".zip")
        \/ d = "SingleFile" /\ EndsWith(n, ".java")}

\* the folder without the file at p
Unlink(f, p) == [q \in DOMAIN f \ {p} |-> f[q]]

\* os.rename(from, to) of a file, replacing a file at to
RenameFile(f, from, to) ==
    [q \in (DOMAIN f \ {from}) \cup {to} |-> IF q = to THEN f[from] ELSE f[q]]

Ancestors(p) == {SubSeq(p, 1, k) : k \in 1..(Len(p) - 1)}

\* zf.extract(member, parent_dir) writes member m at path p, which is
\* parent_dir / member: it raises when a parent is a file
\* or p is a directory, and after writing when the member is bad
ExtractAt(f, m, p) ==
    IF \/ \E a \in Ancestors(p) : a \in DOMAIN f /\ f[a].kind # "dir"
       \/ p \in DOMAIN f /\ f[p].kind = "dir"
    THEN [folder |-> f, raised |-> TRUE]
    ELSE [folder |-> [q \in DOMAIN f \cup Ancestors(p) \cup {p} |->
                         IF q = p THEN m.data
                         ELSE IF q \in DOMAIN f THEN f[q]
                         ELSE [kind |-> "dir", id |-> "", members |-> <<>>]],
          raised |-> m.bad]

\* JVSSTV2_SingleFile.py: the members the loop extracts
SingleFileMembers(members) ==
    SelectSeq(members, LAMBDA m :
        /\ ~StartsWith(m.name, "__MACOSX")
        /\ (EndsWith(m.name, ".java") \/ EndsWith(m.name, ".zip")))

\* shutil.move(extracted, dest_path) once dest_path has been cleared
MoveCleared(cleared, extracted, dest_path) ==
    IF extracted \notin DOMAIN cleared
    THEN [folder |-> cleared, raised |-> TRUE]
    ELSE [folder |-> RenameFile(cleared, extracted, dest_path),
          raised |-> FALSE]

\* JVSSTV2_SingleFile.py, after zf.extract returned e: unlink what is at
\* the destination (a directory there raises), move the extracted file
SingleFileMoveTo(e, extracted, dest_path) ==
    IF e.raised
    THEN e
    ELSE IF dest_path \notin DOMAIN e.folder
         THEN MoveCleared(e.folder, extracted, dest_path)
         ELSE IF e.folder[dest_path].kind = "dir"
              THEN [folder |-> e.folder, raised |-> TRUE]
              ELSE MoveCleared(Unlink(e.folder, dest_path), extracted,
                               dest_path)

\* java_submission_tester.py, after zf.extract returned e: shutil.move to
\* new_name (os.rename replaces a file that is there; a directory there
\* receives the file, unless it holds one of that name)
TesterMoveTo(e, extracted, new_name) ==
    IF e.raised
    THEN e
    ELSE IF new_name \in DOMAIN e.folder /\ e.folder[new_name].kind = "dir"
         THEN IF (new_name \o <<Last(extracted)>>) \in DOMAIN e.folder
              THEN [folder |-> e.folder, raised |-> TRUE]
              ELSE [folder |-> RenameFile(e.folder, extracted,
                                          new_name \o <<Last(extracted)>>),
                    raised |-> FALSE]
         ELSE [folder |-> RenameFile(e.folder, extracted, new_name),
               raised |-> FALSE]

RECURSIVE MoveMembers(_, _, _, _)
\* the loop goes on after a member that did not raise
MoveRest(r, student_id, rest, d) ==
    IF r.raised THEN r ELSE MoveMembers(r.folder, student_id, rest, d)

\* the member loop: each member is extracted and moved to
\* student_folder / DestName; the loop ends at the first member that raises
MoveMembers(f, student_id, members, d) ==
    IF members = <<>>
    THEN [folder |-> f, raised |-> FALSE]
    ELSE IF d = "SingleFile"
         THEN MoveRest(
                  SingleFileMoveTo(
                      ExtractAt(f, Head(members), MemberPath(Head(members).name)),
                      MemberPath(Head(members).name),
                      <<DestName(student_id, Head(members).name)>>),
                  student_id, Tail(members), d)
         ELSE MoveRest(
                  TesterMoveTo(
                      ExtractAt(f, Head(members), MemberPath(Head(members).name)),
                      MemberPath(Head(members).name),
                      <<DestName(student_id, Head(members).name)>>),
                  student_id, Tail(members), d)

\* zip_path.rename(backup_name): os.rename(from, to) of the archive raises
\* when the archive is gone or a directory has the backup's name
RenameArchive(f, from, to) ==
    IF from \notin DOMAIN f \/ (to \in DOMAIN f /\ f[to].kind = "dir")
    THEN [folder |-> f, raised |-> TRUE]
    ELSE [folder |-> RenameFile(f, from, to), raised |-> FALSE]

inner_zips(members) ==
    SelectSeq(members, LAMBDA m :
        EndsWith(m.name, ".zip") /\ ~StartsWith(m.name, "__MACOSX"))

\* java_submission_tester.py: inner_zips and not has_java
is_wrapper(members) ==
    /\ inner_zips(members) # <<>>
    /\ ~\E i \in 1..Len(members) :
           EndsWith(members[i].name, ".java")
           /\ ~StartsWith(members[i].name, "__MACOSX")

\* what one iteration of the loop of preprocess_nested_zips leaves
Outcome(f, name, error, renamed) ==
    [folder |-> f, zip |-> name, error |-> error, renamed |-> renamed]

\* the end of an iteration whose member loop did not raise
Renamed(backup, name) ==
    Outcome(backup.folder, name, backup.raised, ~backup.raised)

\* the end of an iteration, given what the member loop left
AfterMembers(moved, name) ==
    IF moved.raised
    THEN Outcome(moved.folder, name, TRUE, FALSE)
    ELSE Renamed(RenameArchive(moved.folder, <<name>>, <<BackupName(name)>>),
                 name)

\* one iteration of the loop of preprocess_nested_zips, for the entry name
\* of initial_subs
SplitEntry(f, student_id, name, d) ==
    IF d = "SingleFile" /\ lower(Suffix(name)) # ".zip"
    THEN Outcome(f, name, FALSE, FALSE)
    ELSE IF <<name>> \notin DOMAIN f \/ f[<<name>>].kind # "zip"
    THEN Outcome(f, name, TRUE, FALSE)
    ELSE IF d = "Tester" /\ ~is_wrapper(f[<<name>>].members)
    THEN Outcome(f, name, FALSE, FALSE)
    ELSE AfterMembers(
             MoveMembers(f, student_id,
                         IF d = "SingleFile"
                         THEN SingleFileMembers(f[<<name>>].members)
                         ELSE inner_zips(f[<<name>>].members),
                         d),
             name)

RECURSIVE SplitAll(_, _, _, _, _)
SplitRest(r, student_id, rest, d, log) ==
    SplitAll(r.folder, student_id, rest, d,
             Append(log, [zip |-> r.zip, error |-> r.error,
                          renamed |-> r.renamed]))

\* the loop over initial_subs in the order the scan returned them
SplitAll(f, student_id, order, d, log) ==
    IF order = <<>>
    THEN [folder |-> f, log |-> log]
    ELSE SplitRest(SplitEntry(f, student_id, Head(order), d),
                   student_id, Tail(order), d, log)

\* the orders in which glob may list a set of names
Orders(S) ==
    {o \in [1..Cardinality(S) -> S] : \A x \in S : \E i \in DOMAIN o : o[i] = x}

(***************************************************************************)
(* The explored student folders: up to MaxFolderEntries entries of student *)
(* StudentId taken from FolderPool.                                        *)
(***************************************************************************)
StudentId == "S"

\* an ordinary submission archive
Part(id) == ZipEntry(id, <<Member("Main.java", JavaEntry(id \o ":Main.java"), FALSE)>>)

TwoParts(id) ==
    ZipEntry(id, <<Member("part1.zip", Part(id \o ":part1"), FALSE),
                   Member("part2.zip", Part(id \o ":part2"), FALSE)>>)

FolderPool ==
    {<<"w.zip", TwoParts("w")>>,
     <<"S_part1.zip", TwoParts("self")>>,
     <<"S_part1.zip", Part("old")>>,
     <<"dup.zip",
       ZipEntry("dup", <<Member("a/part.zip", Part("dup:a"), FALSE),
                         Member("b/part.zip", Part("dup:b"), FALSE)>>)>>,
     <<"mixed.zip",
       ZipEntry("mixed", <<Member("Main.java", JavaEntry("mixed:Main.java"), FALSE),
                           Member("part1.zip", Part("mixed:part1"), FALSE)>>)>>,
     <<"bad.zip",
       ZipEntry("bad", <<Member("part1.zip", Part("bad:part1"), FALSE),
                         Member("part2.zip", JunkEntry(""), TRUE)>>)>>,
     <<"plain.zip",
       ZipEntry("plain", <<Member("__MACOSX/._Main.java", JavaEntry("plain:meta"), FALSE),
                           Member("Lab1/Main.java", JavaEntry("plain:Main.java"), FALSE)>>)>>,
     <<"notes.zip",
       ZipEntry("notes", <<Member("readme.txt", JunkEntry("notes:readme"), FALSE)>>)>>,
     <<"broken.zip", JunkEntry("broken")>>,
     <<"Main.java", JavaEntry("loose")>>}

SplitInputs ==
    {[p \in {<<e[1]>> : e \in entries} |->
         (CHOOSE e \in entries : e[1] = p[1])[2]] : entries \in
        {E \in SUBSET FolderPool :
            /\ Cardinality(E) <= MaxFolderEntries
            /\ \A x, y \in E : x[1] = y[1] => x = y}}

\* preprocess_nested_zips returns: r is what the loop left
Preprocessed(r) ==
    /\ subFolder' = r.folder
    /\ splitLog' = r.log

\* JVSSTV2_SingleFile.py: one call of preprocess_nested_zips
PreprocessSingleFile ==
    /\ spPc = "start"
    /\ draft = "SingleFile"
    /\ \E order \in Orders(find_submissions(subFolder, draft)) :
           Preprocessed(SplitAll(subFolder, StudentId, order, draft, <<>>))
    /\ spPc' = "split"
    /\ UNCHANGED <<folderBefore, draft, scan, cmpVars, flVars, exVars, epVars,
                   btVars>>

\* java_submission_tester.py: one call of preprocess_nested_zips
PreprocessTester ==
    /\ spPc = "start"
    /\ draft = "Tester"
    /\ \E order \in Orders(find_submissions(subFolder, draft)) :
           Preprocessed(SplitAll(subFolder, StudentId, order, draft, <<>>))
    /\ spPc' = "split"
    /\ UNCHANGED <<folderBefore, draft, scan, cmpVars, flVars, exVars, epVars,
                   btVars>>

\* run_all_tests: the discovery scan that follows preprocess_nested_zips
FindSubmissions ==
    /\ spPc = "split"
    /\ scan' = find_submissions(subFolder, draft)
    /\ spPc' = "done"
    /\ UNCHANGED <<subFolder, folderBefore, draft, splitLog,
                   cmpVars, flVars, exVars, epVars, btVars>>

InitSplit ==
    /\ subFolder \in SplitInputs
    /\ folderBefore = subFolder
    /\ draft \in {"SingleFile", "Tester"}
    /\ spPc = "start"
    /\ splitLog = <<>>
    /\ scan = {}
    /\ CmpIdle
    /\ FlIdle
    /\ ExIdle
    /\ EpIdle
    /\ BtIdle

NextSplit == PreprocessSingleFile \/ PreprocessTester \/ FindSubmissions

SpecSplit == InitSplit /\ [][NextSplit]_vars

\* the archives of the student folder before preprocessing
ArchivesBefore ==
    {n \in TopNames(folderBefore) : folderBefore[<<n>>].kind = "zip"}

\* the members of an archive outside the OS metadata
PlainMembers(e) ==
    {i \in DOMAIN e.members : ~StartsWith(e.members[i].name, "__MACOSX")}

HoldsSource(e) ==
    \E i \in PlainMembers(e) : EndsWith(e.members[i].name, ".java")

HoldsArchive(e) ==
    \E i \in PlainMembers(e) : EndsWith(e.members[i].name, ".zip")

\* an archive that holds nested archives and no source file
Wrapper(e) == HoldsArchive(e) /\ ~HoldsSource(e)

\* the archive called n is where and what it was before preprocessing
Untouched(n) ==
    /\ <<n>> \in DOMAIN subFolder
    /\ subFolder[<<n>>] = folderBefore[<<n>>]
    /\ <<BackupName(n)>> \notin DOMAIN subFolder

\* member i of the archive called n is a top-level file of the folder
\* under its target name
UnitOf(n, i) ==
    LET m == folderBefore[<<n>>].members[i]
        target == <<DestName(StudentId, m.name)>>
    IN  /\ target \in DOMAIN subFolder
        /\ subFolder[target] = m.data

\* C11: an archive that holds at least one .java member outside the OS
\* metadata is never split: after preprocessing it is still in the student
\* folder under its own name with its content, there is no .original copy,
\* none of its members has been extracted into the folder, and the
\* following discovery scan returns it.
C11_SourceArchiveNeverSplit ==
    spPc = "done" =>
        \A n \in ArchivesBefore :
            HoldsSource(folderBefore[<<n>>]) =>
                /\ Untouched(n)
                /\ \A i \in PlainMembers(folderBefore[<<n>>]) : ~UnitOf(n, i)
                /\ n \in scan

\* the archive holds exactly the nested archives part1.zip and part2.zip
TwoPartWrapper(e) ==
    /\ e.kind = "zip"
    /\ Len(e.members) = 2
    /\ e.members[1].name = "part1.zip"
    /\ e.members[2].name = "part2.zip"
    /\ ~e.members[1].bad /\ ~e.members[2].bad

\* C12: after a wrapper of student S with the nested archives part1.zip and
\* part2.zip and no source file is preprocessed, the folder holds
\* S_part1.zip and S_part2.zip with the content of the two members, the
\* wrapper's content is under its name with the suffix .original, and the
\* following scan returns the two units and not the wrapper.
C12_TwoPartWrapperSplit ==
    spPc = "done" =>
        \A n \in ArchivesBefore :
            TwoPartWrapper(folderBefore[<<n>>]) =>
                /\ UnitOf(n, 1) /\ UnitOf(n, 2)
                /\ <<BackupName(n)>> \in DOMAIN subFolder
                /\ subFolder[<<BackupName(n)>>] = folderBefore[<<n>>]
                /\ {"S_part1.zip", "S_part2.zip"} \subseteq scan
                /\ BackupName(n) \notin scan
                /\ n \in scan => subFolder[<<n>>] # folderBefore[<<n>>]

\* the submission units of the folder that the following scan returns
ScannedUnits == {subFolder[<<u>>] : u \in scan}

\* every member of the archive can be read
AllReadable(e) == \A i \in DOMAIN e.members : ~e.members[i].bad

\* C13: splitting a wrapper whose k members are nested archives yields k
\* distinct submission units: each member is, after preprocessing, the
\* content of a unit that the following scan returns (the members of an
\* explored wrapper differ in content, so k members need k units).
C13_EveryMemberBecomesAUnit ==
    spPc = "done" =>
        \A n \in ArchivesBefore :
            LET e == folderBefore[<<n>>]
            IN  Wrapper(e) /\ AllReadable(e) =>
                    \A i \in PlainMembers(e) :
                        EndsWith(e.members[i].name, ".zip") =>
                            e.members[i].data \in ScannedUnits

\* C14: when preprocessing an archive logs an error, the archive keeps its
\* name and content, no .original copy is made, and no member of it
\* remains in the student folder as a new submission unit.
C14_ErrorLeavesFolderAsItWas ==
    spPc = "done" =>
        \A k \in DOMAIN splitLog :
            LET n == splitLog[k].zip
            IN  splitLog[k].error /\ n \in ArchivesBefore =>
                    /\ Untouched(n)
                    /\ \A i \in DOMAIN folderBefore[<<n>>].members :
                           ~UnitOf(n, i)

(***************************************************************************)
(* The entry-point stage of test_submission (JVSSTV2_SingleFile.py, lines  *)
(* 366-435): discovery of the source files, resolution of the student's    *)
(* entry file, normalization of its name, and the replace, keep or inject  *)
(* decision.  The working directory is a tree whose files hold their text. *)
(***************************************************************************)
MaxSourceFiles == 3

\* self.main_file_name: the reference entry file of default_code
main_file_name == "App.java"

\* the text of default_code / main_file_name
MasterContent == "public class App { /* reference */ public static void main(String[] a) {} }"

MainMarker == "public static void main"

\* student_main_path = None
None == <<>>

\* Path.name, Path.parent and Path.stem
Name(p) == Last(p)

Parent(p) == SubSeq(p, 1, Len(p) - 1)

Stem(name) == SubSeq(name, 1, Len(name) - Len(Suffix(name)))

\* sub in s
Contains(s, sub) ==
    \E i \in 1..(Len(s) - Len(sub) + 1) : SubSeq(s, i, i + Len(sub) - 1) = sub

RECURSIVE str_replace(_, _, _)
\* s.replace(old, new)
str_replace(s, old, new) ==
    IF Len(s) < Len(old)
    THEN s
    ELSE IF SubSeq(s, 1, Len(old)) = old
         THEN new \o str_replace(SubSeq(s, Len(old) + 1, Len(s)), old, new)
         ELSE SubSeq(s, 1, 1) \o str_replace(SubSeq(s, 2, Len(s)), old, new)

\* self.main_file_name.replace(".java", "")
MasterClass == str_replace(main_file_name, ".java", "")

\* find_java_files: rglob("*.java") without the OS metadata
JavaFiles(t) ==
    {p \in DOMAIN t :
        /\ p # <<>>
        /\ EndsWith(Name(p), ".java")
        /\ \A k \in DOMAIN p : p[k] # "__MACOSX"
        /\ ~StartsWith(Name(p), "._")
        /\ ~Contains(Name(p), ".DS_Store")}

\* rglob walks the tree top down: the files of a directory come before
\* the files of its subdirectories, and a subtree is listed in one piece
TopDown(o) ==
    /\ \A i, j \in DOMAIN o :
           i < j => ~(Parent(o[j]) # Parent(o[i])
                      /\ IsPrefix(Parent(o[j]), Parent(o[i])))
    /\ \A i, j, k \in DOMAIN o :
           i < j /\ j < k =>
               \A n \in 0..Len(Parent(o[i])) :
                   IsPrefix(SubSeq(o[i], 1, n), Parent(o[k]))
                       => IsPrefix(SubSeq(o[i], 1, n), Parent(o[j]))

\* the lists that find_java_files may return for a tree
find_java_files(t) == {o \in Orders(JavaFiles(t)) : TopDown(o)}

RECURSIVE FirstNamed(_, _)
\* A. the index, from i on, of the first file whose name is main_file_name,
\* or 0
FirstNamed(java_files, i) ==
    IF i > Len(java_files)
    THEN 0
    ELSE IF Name(java_files[i]) = main_file_name
         THEN i
         ELSE FirstNamed(java_files, i + 1)

RECURSIVE FirstWithMain(_, _, _)
\* B. the index, from i on, of the first file whose text contains the
\* main-method marker, or 0
FirstWithMain(t, java_files, i) ==
    IF i > Len(java_files)
    THEN 0
    ELSE IF Contains(t[java_files[i]], MainMarker)
         THEN i
         ELSE FirstWithMain(t, java_files, i + 1)

Pick(java_files, i) == IF i = 0 THEN None ELSE java_files[i]

\* a resolution that looks at the contents before the names
Resolve_ContentFirst(t, java_files) ==
    IF FirstWithMain(t, java_files, 1) # 0
    THEN Pick(java_files, FirstWithMain(t, java_files, 1))
    ELSE Pick(java_files, FirstNamed(java_files, 1))

\* the student's entry file: by name, else by content, else None
Resolve(t, java_files) ==
    IF FirstNamed(java_files, 1) # 0
    THEN Pick(java_files, FirstNamed(java_files, 1))
    ELSE Pick(java_files, FirstWithMain(t, java_files, 1))

IdentChars == UpperLetters \o LowerLetters \o Digits \o "_$"

RECURSIVE SkipWhile(_, _, _)
\* the first index from i on whose character is not in the set chars
SkipWhile(s, i, chars) ==
    IF i <= Len(s) /\ IndexIn(chars, Char(s, i)) # 0
    THEN SkipWhile(s, i + 1, chars)
    ELSE i

StartsAt(s, i, word) ==
    i + Len(word) - 1 <= Len(s) /\ SubSeq(s, i, i + Len(word) - 1) = word

\* \s+([a-zA-Z0-9_$]+) from j on, k being where the white space ends: the
\* group runs from k to where the identifier characters end
NameAfter(s, j, k) ==
    IF k > j THEN SubSeq(s, k, SkipWhile(s, k, IdentChars) - 1) ELSE ""

\* class\s+([a-zA-Z0-9_$]+) at j
ClassAt(s, j) ==
    IF StartsAt(s, j, "class")
    THEN NameAfter(s, j + 5, SkipWhile(s, j + 5, " \t\n\r\f"))
    ELSE ""

\* \s+class... from j on, k being where the white space ends
ClassAfter(s, j, k) == IF k > j THEN ClassAt(s, k) ELSE ""

\* the pattern matched at i: its group, or "" when it does not match
PublicAt(s, i) ==
    IF StartsAt(s, i, "public")
    THEN ClassAfter(s, i + 6, SkipWhile(s, i + 6, " \t\n\r\f"))
    ELSE ""

RECURSIVE SearchFrom(_, _)
SearchFrom(s, i) ==
    IF i > Len(s)
    THEN ""
    ELSE IF PublicAt(s, i) # "" THEN PublicAt(s, i) ELSE SearchFrom(s, i + 1)

\* re.search(r'public\s+class\s+([a-zA-Z0-9_$]+)', content).group(1), or ""
real_class_name(content) == SearchFrom(content, 1)

\* the state of the stage: the tree, student_main_path, main_class_name
\* and the log
Stage(t, main, cls, log) ==
    [tree |-> t, main |-> main, cls |-> cls, log |-> log]

\* resolution, with the log line of rule B
Resolved(t, java_files, main, cls) ==
    Stage(t, main, cls,
          IF main # None /\ FirstNamed(java_files, 1) = 0
          THEN <<"found by content">>
          ELSE <<>>)

\* a normalization that leaves the entry file under its name
RenameMain_KeepsName(st, new_path, declared) == st

\* new_path.unlink() if it exists, student_main_path.rename(new_path)
RenameMain(st, new_path, declared) ==
    IF IsDirAt(st.tree, new_path)
    THEN Stage(st.tree, st.main, st.cls, Append(st.log, "normalization error"))
    ELSE Stage(RenameFile(st.tree, st.main, new_path), new_path, declared,
               Append(st.log, "normalized"))

\* the normalization of an entry file whose text declares class declared
NormalizeTo(st, declared) ==
    IF declared = "" \/ Name(st.main) = declared \o ".java"
    THEN st
    ELSE RenameMain(st, Parent(st.main) \o <<declared \o ".java">>, declared)

Normalize(st, normalize) ==
    IF normalize /\ st.main # None
    THEN NormalizeTo(st, real_class_name(st.tree[st.main]))
    ELSE st

\* where shutil.copy(src, dir / self.main_file_name) writes: a directory
\* at the destination receives the file under the name of src
CopyDest(t, dir) ==
    IF IsDirAt(t, dir \o <<main_file_name>>)
    THEN dir \o <<main_file_name, main_file_name>>
    ELSE dir \o <<main_file_name>>

\* shutil.copy(default_main_path, dir / self.main_file_name)
CopyMaster(t, dir) ==
    [q \in DOMAIN t \cup {CopyDest(t, dir)} |->
        IF q = CopyDest(t, dir) THEN MasterContent ELSE t[q]]

\* student_main_path.unlink() when its name is not main_file_name
DropStudent(t, main) ==
    IF Name(main) # main_file_name THEN Unlink(t, main) ELSE t

\* replace: copy the reference file, delete the student's file
Replace(st) ==
    Stage(DropStudent(CopyMaster(st.tree, Parent(st.main)), st.main),
          st.main, MasterClass, Append(st.log, "replaced"))

\* a keep policy that leaves main_class_name as the stage found it
Keep_LeavesTarget(st) ==
    Stage(st.tree, st.main, st.cls, Append(st.log, "keeping"))

\* a keep policy that runs the reference class
Keep_RunsMaster(st) ==
    Stage(st.tree, st.main, MasterClass, Append(st.log, "keeping"))

\* keep: run the student's entry file
Keep(st) ==
    Stage(st.tree, st.main, Stem(Name(st.main)), Append(st.log, "keeping"))

\* C. no entry file: inject the reference file into
\* target_dir = java_files[0].parent if java_files else extract_path
Inject(st, java_files) ==
    Stage(CopyMaster(st.tree,
                     IF java_files # <<>> THEN Parent(java_files[1]) ELSE <<>>),
          None, MasterClass,
          Append(st.log, "no entry point found; injected"))

\* Step 3.1
Decide(st, java_files, replace) ==
    IF st.main # None
    THEN IF replace THEN Replace(st) ELSE Keep(st)
    ELSE Inject(st, java_files)

\* the stage from the discovery to the decision
entry_stage(t, java_files, replace, normalize, cls) ==
    Decide(Normalize(Resolved(t, java_files, Resolve(t, java_files), cls),
                     normalize),
           java_files, replace)

(***************************************************************************)
(* The explored working directories: up to MaxSourceFiles files of         *)
(* SourcePool, with the directories that hold them.                        *)
(***************************************************************************)
StudentMain(cls) ==
    "public class " \o cls \o " { public static void main(String[] a) {} }"

PlainClass(cls) == "public class " \o cls \o " {}"

SourcePool ==
    {<<(<<"App.java">>), StudentMain("App")>>,
     <<(<<"a", "App.java">>), StudentMain("App")>>,
     <<(<<"b", "App.java">>), PlainClass("App")>>,
     <<(<<"A111.java">>), StudentMain("App")>>,
     <<(<<"a", "X1.java">>), StudentMain("Foo")>>,
     <<(<<"a", "Foo.java">>), PlainClass("Foo")>>,
     <<(<<"Util.java">>), PlainClass("Util")>>,
     <<(<<"b", "B1.java">>), "class Helper {}">>,
     <<(<<"b", "B2.java">>), "public final class B2 { public static void main(String[] a) {} }">>,
     <<(<<"b", "B3.java">>), PlainClass("B3")>>,
     <<(<<"__MACOSX", "App.java">>), StudentMain("App")>>,
     <<(<<"a", "notes.txt">>), "public static void main">>}

EntryInputs ==
    {[p \in {f[1] : f \in files} \cup UNION {Ancestors(f[1]) : f \in files} |->
         IF \E f \in files : f[1] = p
         THEN (CHOOSE f \in files : f[1] = p)[2]
         ELSE Dir] : files \in
        {F \in SUBSET SourcePool : Cardinality(F) <= MaxSourceFiles}}

\* the stage returns: st is what it left
StageDone(st, java_files) ==
    /\ work' = st.tree
    /\ javaOrder' = java_files
    /\ resolved' = Resolve(work, java_files)
    /\ student_main_path' = st.main
    /\ main_class_name' = st.cls
    /\ epLog' = st.log

\* test_submission, lines 366-435, when the reference file exists
EntryPointStage ==
    /\ epPc = "start"
    /\ masterExists
    /\ \E java_files \in find_java_files(work) :
           StageDone(entry_stage(work, java_files, replace_main_file,
                                 normalize_filenames, main_class_name),
                     java_files)
    /\ epPc' = "done"
    /\ UNCHANGED <<workBefore, replace_main_file, normalize_filenames,
                   masterExists, cmpVars, flVars, exVars, spVars, btVars>>

\* test_submission, lines 367-371: the reference file is missing
MasterMissing ==
    /\ epPc = "start"
    /\ ~masterExists
    /\ epLog' = <<"master not found">>
    /\ epPc' = "done"
    /\ UNCHANGED <<work, workBefore, javaOrder, resolved, student_main_path,
                   main_class_name, replace_main_file, normalize_filenames,
                   masterExists, cmpVars, flVars, exVars, spVars, btVars>>

InitEntry ==
    /\ work \in EntryInputs
    /\ workBefore = work
    /\ javaOrder = <<>>
    /\ resolved = None
    /\ student_main_path = None
    /\ main_class_name = MasterClass
    /\ replace_main_file \in BOOLEAN
    /\ normalize_filenames \in BOOLEAN
    /\ masterExists \in BOOLEAN
    /\ epLog = <<>>
    /\ epPc = "start"
    /\ CmpIdle
    /\ FlIdle
    /\ ExIdle
    /\ SpIdle
    /\ BtIdle

NextEntry == EntryPointStage \/ MasterMissing

SpecEntry == InitEntry /\ [][NextEntry]_vars

\* the entry-point stage is over and the reference file was there
StageOver == epPc = "done" /\ masterExists

\* the positions of javaOrder whose file has the expected entry-point name
NamedPositions ==
    {i \in DOMAIN javaOrder : Name(javaOrder[i]) = main_file_name}

\* the positions of javaOrder whose file contains the main-method marker
MarkedPositions ==
    {i \in DOMAIN javaOrder : Contains(workBefore[javaOrder[i]], MainMarker)}

Least(S) == CHOOSE i \in S : \A j \in S : i <= j

\* C15: resolution chooses a file with the expected entry-point name
\* whenever one exists (the first in discovery order), even if an earlier
\* file contains the main-method marker; with no such name it chooses the
\* first file in discovery order that contains the marker; with neither it
\* resolves no entry point.
C15_ResolutionPriority ==
    StageOver =>
        IF NamedPositions # {}
        THEN resolved = javaOrder[Least(NamedPositions)]
        ELSE IF MarkedPositions # {}
             THEN resolved = javaOrder[Least(MarkedPositions)]
             ELSE resolved = None

\* a file with the marker was discovered before the file with the expected
\* name, and the file with the expected name was chosen
C15_Witness ==
    /\ StageOver
    /\ NamedPositions # {}
    /\ MarkedPositions # {}
    /\ Least(MarkedPositions) < Least(NamedPositions)
    /\ resolved = javaOrder[Least(NamedPositions)]

\* the class that the text of the resolved entry file declares
DeclaredName == real_class_name(workBefore[resolved])

\* normalization is enabled and the resolved entry file declares a public
\* class whose name is not the file's base name
Misnamed ==
    /\ StageOver
    /\ normalize_filenames
    /\ resolved # None
    /\ DeclaredName # ""
    /\ Name(resolved) # DeclaredName \o ".java"

\* where normalization moves the resolved entry file
NormalizedPath == Parent(resolved) \o <<DeclaredName \o ".java">>

EntryNamedFiles ==
    {p \in JavaFiles(work) : Name(p) = main_class_name \o ".java"}

\* C17: after the entry-point stage the source tree of the working
\* directory holds at most one file with the expected entry-point name.
C17_AtMostOneEntryFile ==
    StageOver => Cardinality(EntryNamedFiles) <= 1

\* where the replace policy puts the reference file
ReplacedPath == Parent(resolved) \o <<main_file_name>>

\* C18: under the replace policy, when an entry point was resolved, the
\* stage ends with the reference file under the expected name in the
\* directory of the resolved file, the resolved file is gone if and only if
\* its name differs from the expected name, every other source file is
\* where and what it was, and the run target is the reference class name.
C18_ReplacePolicy ==
    StageOver /\ replace_main_file /\ resolved # None =>
        /\ ReplacedPath \in DOMAIN work
        /\ work[ReplacedPath] = MasterContent
        /\ (resolved \notin DOMAIN work) <=> (Name(resolved) # main_file_name)
        /\ \A q \in JavaFiles(workBefore) \ {resolved, ReplacedPath} :
               q \in DOMAIN work /\ work[q] = workBefore[q]
        /\ main_class_name = MasterClass

\* C19: under the keep policy, when an entry point was resolved, the stage
\* adds no file to the working directory (no reference file is copied),
\* the student's entry file has the text it had, and the run target is the
\* base name of the student's entry file after normalization.
C19_KeepPolicy ==
    StageOver /\ ~replace_main_file /\ resolved # None =>
        /\ \A q \in DOMAIN work :
               work[q] = MasterContent => q \in DOMAIN workBefore
        /\ \A q \in DOMAIN work : q \in DOMAIN workBefore \/ q = student_main_path
        /\ student_main_path \in DOMAIN work
        /\ work[student_main_path] = workBefore[resolved]
        /\ main_class_name \o ".java" = Name(student_main_path)

\* the keep policy ran on an entry file that normalization had renamed
C19_Witness ==
    /\ StageOver
    /\ ~replace_main_file
    /\ resolved # None
    /\ student_main_path # resolved
    /\ main_class_name \o ".java" = Name(student_main_path)
    /\ main_class_name # MasterClass

\* the number of source files that directory d held
SourceCount(d) ==
    Cardinality({p \in JavaFiles(workBefore) : Parent(p) = d})

\* the directories that the stage added the reference file to
InjectedDirs ==
    {Parent(q) : q \in {r \in DOMAIN work \ DOMAIN workBefore :
                            Name(r) = main_file_name
                            /\ work[r] = MasterContent}}

\* C20: when no entry point is resolved the reference file is copied into
\* the directory that holds the most source files, or into the root of the
\* working directory when there are no source files, and a warning is
\* logged.
C20_InjectIntoFullestDirectory ==
    StageOver /\ resolved = None =>
        /\ \E i \in DOMAIN epLog : epLog[i] = "no entry point found; injected"
        /\ IF JavaFiles(workBefore) = {}
           THEN InjectedDirs = {<<>>}
           ELSE \E d \in InjectedDirs :
                    \A p \in JavaFiles(workBefore) :
                        SourceCount(Parent(p)) <= SourceCount(d)

\* the source files named after the class that the run step is given
TargetFiles ==
    {p \in JavaFiles(work) : Name(p) = main_class_name \o ".java"}

\* C21: a submission that reaches the build step has exactly one source
\* file defining the class that the run step targets; when the reference
\* file is missing the stage stops with the working directory as it was.
C21_ExactlyOneTargetFile ==
    /\ StageOver => Cardinality(TargetFiles) = 1
    /\ epPc = "done" /\ ~masterExists => work = workBefore

\* the working directory as normalization leaves it, before the decision
NormalizedTree ==
    Normalize(Resolved(workBefore, javaOrder, resolved, MasterClass),
              normalize_filenames).tree

\* the multiset of the texts of the source files of the tree t
ContentBag(t) ==
    [c \in {t[p] : p \in JavaFiles(t)} |->
        Cardinality({p \in JavaFiles(t) : t[p] = c})]

\* C30: normalization only renames the resolved entry file: the multiset of
\* source-file contents of the working directory is the same before and
\* after it.
C30_NormalizationOnlyRenames ==
    StageOver /\ normalize_filenames =>
        ContentBag(NormalizedTree) = ContentBag(workBefore)

(***************************************************************************)
(* run_all_tests after preprocessing: the loop over the discovered units,  *)
(* and test_submission stage by stage.  The outcome of the external        *)
(* compiler, of the program run and of the comparison are given with each  *)
(* unit (its fate); a result keeps the flags and the status of the result  *)
(* dict, not its time stamp and its captured texts.                        *)
(***************************************************************************)
MaxUnits == 2

\* the copy of step 3.1 raises: what it would write to is a directory
CopyRaises(st, java_files, replace) ==
    IF st.main # None
    THEN replace /\ IsDirAt(st.tree, CopyDest(st.tree, Parent(st.main)))
    ELSE IsDirAt(st.tree,
                 CopyDest(st.tree,
                          IF java_files # <<>> THEN Parent(java_files[1])
                          ELSE <<>>))

\* [\w.]+\s*; from b on, c being where the name ends: the index after the
\* match, or 0
PackageName(s, b, c) ==
    IF /\ c > b
       /\ SkipWhile(s, c, " \t\n\r\f") <= Len(s)
       /\ Char(s, SkipWhile(s, c, " \t\n\r\f")) = ";"
    THEN SkipWhile(s, c, " \t\n\r\f") + 1
    ELSE 0

\* \s+[\w.]+\s*; from a on, b being where the white space ends
PackageSpace(s, a, b) ==
    IF b > a
    THEN PackageName(s, b,
             SkipWhile(s, b, UpperLetters \o LowerLetters \o Digits \o "_."))
    ELSE 0

\* package\s+[\w.]+\s*; at a
PackageAt(s, a) ==
    IF StartsAt(s, a, "package")
    THEN PackageSpace(s, a + 7, SkipWhile(s, a + 7, " \t\n\r\f"))
    ELSE 0

\* ^\s*package\s+[\w.]+\s*; matched at i with re.MULTILINE: the index after
\* the match, or 0 when it does not match there
PackageEnd(s, i) ==
    IF i = 1 \/ Char(s, i - 1) = "\n"
    THEN PackageAt(s, SkipWhile(s, i, " \t\n\r\f"))
    ELSE 0

RECURSIVE strip_package(_, _)
\* re.sub(r'^\s*package\s+[\w.]+\s*;', '', content, flags=re.MULTILINE),
\* from index i on
strip_package(s, i) ==
    IF i > Len(s)
    THEN ""
    ELSE IF PackageEnd(s, i) # 0
         THEN strip_package(s, PackageEnd(s, i))
         ELSE Char(s, i) \o strip_package(s, i + 1)

\* Step 2: the package lines are removed from every source file that can be
\* read, when remove_packages is set
StripPackages(t, remove) ==
    IF remove
    THEN [p \in DOMAIN t |->
             IF p \in JavaFiles(t) /\ t[p] # Dir
             THEN strip_package(t[p], 1)
             ELSE t[p]]
    ELSE t

\* a result dict that starts as passed
NewResult_Passed(u) ==
    [student_id |-> u.student_id, submission |-> u.name,
     extraction |-> FALSE, compilation |-> FALSE, execution |-> FALSE,
     output_validation |-> "none", overall_status |-> "PASSED"]

\* the result dict that test_submission starts with
NewResult(u) ==
    [student_id |-> u.student_id, submission |-> u.name,
     extraction |-> FALSE, compilation |-> FALSE, execution |-> FALSE,
     output_validation |-> "none", overall_status |-> "FAILED"]

\* compile_java_files: what the call comes to for a unit of the given fate
CompileOutcome(java_files, fate) ==
    IF java_files = {}
    THEN "no files"
    ELSE IF fate \in {"javac not found", "compile timeout", "compile error"}
         THEN fate
         ELSE "ok"

\* a run_app that does not look at the exit status
RunOutcome_IgnoreExit(fate) ==
    IF fate = "run timeout" THEN fate ELSE "exit 0"

\* run_app: what the call comes to for a unit of the given fate
RunOutcome(fate) ==
    IF fate \in {"run timeout", "non-zero exit"} THEN fate ELSE "exit 0"

\* one entry of the trace of stage calls
Call(stage, outcome) ==
    [unit |-> started, stage |-> stage, outcome |-> outcome,
     target |-> main_class_name]

\* test_submission returns r and run_all_tests appends it to test_results
Return(r) ==
    /\ result' = r
    /\ test_results' = Append(test_results, r)
    /\ btPc' = "loop"

\* the stage goes on to the next one with result r
GoOn(r, pc) ==
    /\ result' = r
    /\ btPc' = pc
    /\ UNCHANGED test_results

\* a stage that works in the first directory of the student
SetWork_FirstDir(t) ==
    tempDirs' = [tempDirs EXCEPT ![DirName(units[started].student_id, 1)] = t]

\* the working directory of the unit in progress becomes t
SetWork(t) == tempDirs' = [tempDirs EXCEPT ![unit_path] = t]

\* step 3.1 is over without an exception
InjectDone(st) ==
    /\ SetWork(st.tree)
    /\ main_class_name' = st.cls
    /\ trace' = Append(trace, Call("inject", "done"))
    /\ GoOn(result, "compile")

\* step 3.1 from the state st that resolution and normalization left: an
\* exception of shutil.copy leaves test_submission and run_all_tests
InjectFrom(st, java_files) ==
    IF CopyRaises(st, java_files, replace_main_file)
    THEN /\ SetWork(st.tree)
         /\ main_class_name' = st.cls
         /\ trace' = Append(trace, Call("inject", "raised"))
         /\ btPc' = "raised"
         /\ UNCHANGED <<result, test_results>>
    ELSE InjectDone(Decide(st, java_files, replace_main_file))

\* step 3 on the tree t that step 2 left, java_files being the discovery
InjectIn(t, java_files) ==
    IF ~masterExists
    THEN /\ SetWork(t)
         /\ UNCHANGED main_class_name
         /\ trace' = Append(trace, Call("inject", "master not found"))
         /\ Return(result)
    ELSE InjectFrom(Normalize(Resolved(t, java_files, Resolve(t, java_files),
                                       main_class_name),
                              normalize_filenames),
                    java_files)

\* run_all_tests: the loop takes the next unit unless stop_event is set,
\* and test_submission begins
StartUnit ==
    /\ btPc = "loop"
    /\ started < Len(units)
    /\ ~stop_event
    /\ started' = started + 1
    /\ GoOn(NewResult(units[started + 1]), "extract")
    /\ UNCHANGED <<subsDisk, units, stop_event, unit_path, expected_output,
                   remove_packages, trace, cmpVars, flVars, exVars, spVars,
                   epVars>>

\* run_all_tests: the loop is over, or it breaks because stop_event is set
EndBatch ==
    /\ btPc = "loop"
    /\ started = Len(units) \/ stop_event
    /\ btPc' = "end"
    /\ UNCHANGED <<subsDisk, units, started, result, test_results, stop_event,
                   unit_path, expected_output, remove_packages, trace,
                   cmpVars, flVars, exVars, spVars, epVars>>

\* GradingGUI.stop_grading, at any time of the run
StopGrading ==
    /\ btPc \in {"loop", "extract", "inject", "compile", "run", "compare"}
    /\ ~stop_event
    /\ stop_event' = TRUE
    /\ UNCHANGED <<subsDisk, units, started, btPc, result, test_results,
                   unit_path, expected_output, remove_packages, trace,
                   cmpVars, flVars, exVars, spVars, epVars>>

\* Step 1: extract_zip of the unit read from the submissions tree
ExtractStep ==
    /\ btPc = "extract"
    /\ extract_zip(subsDisk[<<units[started].student_id, units[started].name>>],
                   units[started].student_id)
    /\ unit_path' = Last(allocs').extract_path
    /\ trace' = Append(trace, Call("extract", IF Last(allocs').returned
                                              THEN "done" ELSE "failed"))
    /\ IF Last(allocs').returned
       THEN GoOn([result EXCEPT !.extraction = TRUE], "inject")
       ELSE Return(result)
    /\ UNCHANGED <<subsDisk, units, started, stop_event, expected_output,
                   remove_packages>>

\* Steps 2 and 3: package lines, discovery, entry-point injection
InjectStep ==
    /\ btPc = "inject"
    /\ \E java_files \in
           find_java_files(StripPackages(tempDirs[unit_path], remove_packages)) :
           InjectIn(StripPackages(tempDirs[unit_path], remove_packages),
                    java_files)
    /\ UNCHANGED <<subsDisk, units, started, stop_event, unit_path,
                   expected_output, remove_packages, allocs, leftover,
                   cmpVars, flVars, spVars, work, workBefore, javaOrder,
                   resolved, student_main_path, replace_main_file,
                   normalize_filenames, masterExists, epLog, epPc>>

\* Steps 4 and 5: the refreshed file list is compiled; compile_java_files
\* makes the bin directory before it calls javac
CompileStep ==
    /\ btPc = "compile"
    /\ trace' = Append(trace,
           Call("compile", CompileOutcome(JavaFiles(tempDirs[unit_path]),
                                          units[started].fate)))
    /\ IF JavaFiles(tempDirs[unit_path]) = {}
       THEN UNCHANGED tempDirs
       ELSE SetWork((<<"bin_" \o unit_path>> :> Dir) @@ tempDirs[unit_path])
    /\ IF CompileOutcome(JavaFiles(tempDirs[unit_path]),
                         units[started].fate) = "ok"
       THEN GoOn([result EXCEPT !.compilation = TRUE], "run")
       ELSE Return(result)
    /\ UNCHANGED <<subsDisk, units, started, stop_event, unit_path,
                   expected_output, remove_packages, allocs, leftover,
                   cmpVars, flVars, spVars, epVars>>

\* Step 6: run_app runs self.main_class_name
RunStep ==
    /\ btPc = "run"
    /\ trace' = Append(trace, Call("run", RunOutcome(units[started].fate)))
    /\ IF RunOutcome(units[started].fate) # "exit 0"
       THEN Return(result)
       ELSE IF expected_output
            THEN GoOn([result EXCEPT !.execution = TRUE], "compare")
            ELSE Return([result EXCEPT !.execution = TRUE,
                                       !.overall_status = "PASSED"])
    /\ UNCHANGED <<subsDisk, units, started, stop_event, unit_path,
                   expected_output, remove_packages, cmpVars, flVars, exVars,
                   spVars, epVars>>

\* compare_output of the captured output with expected_output
CompareStep ==
    /\ btPc = "compare"
    /\ trace' = Append(trace, Call("compare", units[started].fate))
    /\ IF units[started].fate = "mismatch"
       THEN Return([result EXCEPT !.output_validation = "failed"])
       ELSE Return([result EXCEPT !.output_validation = "passed",
                                  !.overall_status = "PASSED"])
    /\ UNCHANGED <<subsDisk, units, started, stop_event, unit_path,
                   expected_output, remove_packages, cmpVars, flVars, exVars,
                   spVars, epVars>>

(***************************************************************************)
(* The explored runs: up to MaxUnits units of BatchPool in any discovery   *)
(* order, under the settings of BatchConfigs, with one working directory   *)
(* left from an earlier run.                                               *)
(***************************************************************************)
ZipUnit(name, members) == [name |-> name, kind |-> "zip", tree |-> members]

LooseUnit(name, text) ==
    [name |-> name, kind |-> "java", tree |-> (<<name>> :> text)]

BatchPool ==
    {[student_id |-> "A", fate |-> "match",
      unit |-> ZipUnit("A_good.zip", (<<"App.java">> :> StudentMain("App")))],
     [student_id |-> "A", fate |-> "mismatch",
      unit |-> ZipUnit("A_renamed.zip",
                       (<<"A111.java">> :> StudentMain("Foo")))],
     [student_id |-> "A", fate |-> "run timeout",
      unit |-> ZipUnit("A_two.zip",
                       (<<"App.java">> :> StudentMain("App"))
                       @@ (<<"a">> :> Dir)
                       @@ (<<"a", "App.java">> :> PlainClass("App")))],
     [student_id |-> "A", fate |-> "match",
      unit |-> [name |-> "A_broken.zip", kind |-> "badzip",
                tree |-> EmptyTree]],
     [student_id |-> "B", fate |-> "compile error",
      unit |-> LooseUnit("Util.java", PlainClass("Util"))],
     [student_id |-> "B", fate |-> "non-zero exit",
      unit |-> ZipUnit("B_nested.zip",
                       (<<"App.java">> :> Dir)
                       @@ (<<"App.java", "App.java">> :> Dir)
                       @@ (<<"App.java", "App.java", "x.txt">> :> "x")
                       @@ (<<"notes.txt">> :> "notes"))],
     [student_id |-> "C", fate |-> "compile timeout",
      unit |-> LooseUnit("App.java", "package lab;\n" \o StudentMain("App"))],
     [student_id |-> "C", fate |-> "javac not found",
      unit |-> ZipUnit("C_src.zip",
                       (<<"src">> :> Dir)
                       @@ (<<"src", "Main.java">> :> StudentMain("Main"))
                       @@ (<<"src", "Util.java">> :> PlainClass("Util")))]}

\* replace_main_file, normalize_filenames, the reference file exists,
\* expected_output is given, remove_packages
BatchConfigs ==
    {<<TRUE, TRUE, TRUE, TRUE, FALSE>>,
     <<FALSE, TRUE, TRUE, TRUE, FALSE>>,
     <<FALSE, FALSE, TRUE, FALSE, FALSE>>,
     <<TRUE, TRUE, FALSE, TRUE, FALSE>>,
     <<TRUE, FALSE, TRUE, FALSE, TRUE>>,
     <<FALSE, TRUE, TRUE, TRUE, TRUE>>}

\* the discovery lists: distinct units of the pool
BatchInputs ==
    UNION {{o \in [1..n -> BatchPool] : \A i, j \in 1..n : o[i] = o[j] => i = j} :
           n \in 0..MaxUnits}

InitBatch ==
    /\ \E o \in BatchInputs :
           /\ units = [i \in DOMAIN o |->
                          [student_id |-> o[i].student_id,
                           name |-> o[i].unit.name, fate |-> o[i].fate]]
           /\ subsDisk = [k \in {<<o[i].student_id, o[i].unit.name>> :
                                     i \in DOMAIN o} |->
                             (CHOOSE e \in BatchPool :
                                  <<e.student_id, e.unit.name>> = k).unit]
    /\ \E c \in BatchConfigs :
           /\ replace_main_file = c[1]
           /\ normalize_filenames = c[2]
           /\ masterExists = c[3]
           /\ expected_output = c[4]
           /\ remove_packages = c[5]
    /\ started = 0
    /\ btPc = "loop"
    /\ result = <<>>
    /\ test_results = <<>>
    /\ stop_event = FALSE
    /\ unit_path = ""
    /\ trace = <<>>
    /\ main_class_name = MasterClass
    /\ leftover = {"A_1"}
    /\ tempDirs = [n \in leftover |-> LeftoverTree]
    /\ allocs = <<>>
    /\ work = <<>>
    /\ workBefore = <<>>
    /\ javaOrder = <<>>
    /\ resolved = <<>>
    /\ student_main_path = <<>>
    /\ epLog = <<>>
    /\ epPc = "idle"
    /\ CmpIdle
    /\ FlIdle
    /\ SpIdle

NextBatch ==
    \/ StartUnit
    \/ EndBatch
    \/ StopGrading
    \/ ExtractStep
    \/ InjectStep
    \/ CompileStep
    \/ RunStep
    \/ CompareStep

SpecBatch == InitBatch /\ [][NextBatch]_vars

\* extract_zip comes back: with a path, or with None after an exception
ExtractReturns == btPc = "extract" /\ btPc' \in {"inject", "loop"}

\* steps 2 and 3 come to their end: the build is next, the failed result
\* is returned, or an exception is raised
InjectReturns == btPc = "inject" /\ btPc' \in {"compile", "loop", "raised"}

\* the run with its scheduling: the thread of run_all_tests keeps running,
\* the file operations of extraction and injection come to an end, and each
\* external call returns or times out
FairBatch ==
    SpecBatch
    /\ WF_vars(StartUnit \/ EndBatch \/ CompileStep \/ RunStep \/ CompareStep)
    /\ WF_btPc(ExtractReturns)
    /\ WF_btPc(InjectReturns)

(***************************************************************************)
(* Properties of the batch loop.                                           *)
(***************************************************************************)
\* the run is over: the loop ended, or an exception left run_all_tests
BatchOver == btPc \in {"end", "raised"}

\* the records are those of the first units of the discovery, in its order
RecordsInOrder ==
    /\ Len(test_results) <= Len(units)
    /\ \A i \in DOMAIN test_results :
           /\ test_results[i].student_id = units[i].student_id
           /\ test_results[i].submission = units[i].name

\* C22: when a run that was not cancelled is over, test_results holds
\* exactly one record for each discovered unit, in discovery order, whatever
\* stage failed for a unit; no unit is left without a record because of
\* another one.
C22_OneRecordPerUnit ==
    BatchOver /\ ~stop_event =>
        /\ Len(test_results) = Len(units)
        /\ RecordsInOrder

\* C23: when the reference entry-point file is missing, the stage call that
\* detects it is the last stage call of the run: no unit is extracted,
\* compiled or run after it.
C23_MissingMasterAborts ==
    \A i \in DOMAIN trace :
        trace[i].outcome = "master not found" => i = Len(trace)

\* the stage calls made for the u-th unit, in the order they were made
UnitCalls(u) == SelectSeq(trace, LAMBDA c : c.unit = u)

StageOrder == <<"extract", "inject", "compile", "run", "compare">>

CompileFailures == {"javac not found", "compile timeout", "compile error"}

RunFailures == {"run timeout", "non-zero exit"}

\* the calls of unit u are a prefix of the stage order: each stage at most
\* once, none out of turn
InStageOrder(u) ==
    /\ Len(UnitCalls(u)) <= Len(StageOrder)
    /\ \A k \in DOMAIN UnitCalls(u) : UnitCalls(u)[k].stage = StageOrder[k]

\* run only after a compile that succeeded, compare only after exit 0
StagesGated(u) ==
    /\ Len(UnitCalls(u)) >= 4 =>
           /\ UnitCalls(u)[3].outcome = "ok"
           /\ units[u].fate \notin CompileFailures
    /\ Len(UnitCalls(u)) >= 5 =>
           /\ UnitCalls(u)[4].outcome = "exit 0"
           /\ units[u].fate \notin RunFailures

\* the compiler was called for unit u and failed, or its program was run
\* and failed
ToolFailed(u) ==
    \/ /\ Len(UnitCalls(u)) >= 3
       /\ UnitCalls(u)[3].outcome # "no files"
       /\ units[u].fate \in CompileFailures
    \/ /\ Len(UnitCalls(u)) >= 4
       /\ units[u].fate \in RunFailures

\* the failing call was the last one of unit u, and the unit is recorded as
\* failed
FailedQuietly(u) ==
    /\ Len(UnitCalls(u)) = (IF units[u].fate \in CompileFailures THEN 3 ELSE 4)
    /\ u <= Len(test_results)
    /\ test_results[u].student_id = units[u].student_id
    /\ test_results[u].submission = units[u].name
    /\ test_results[u].overall_status = "FAILED"

\* C24: the stage calls of each unit are made in the order extract, inject,
\* compile, run, compare, each at most once; the run follows only a compile
\* that succeeded and the comparison only a run that exited with status 0;
\* after a compile timeout, a missing javac, a compile error, a run timeout
\* or a non-zero exit the unit has no further stage call and is recorded as
\* FAILED.
C24_StagesInOrder ==
    \A u \in 1..started :
        /\ InStageOrder(u)
        /\ StagesGated(u)
        /\ ToolFailed(u) => FailedQuietly(u)

C24_Witness ==
    /\ BatchOver
    /\ \E u \in 1..started : Len(UnitCalls(u)) = 5
    /\ \E u \in 1..started : ToolFailed(u)

\* C25: once stop_event is set and the run is over, every unit that was
\* started has its record, the records being those of the first units in
\* discovery order; and no unit is started while stop_event is set.
C25_CancelBetweenUnits ==
    /\ BatchOver /\ stop_event =>
           /\ Len(test_results) = started
           /\ RecordsInOrder
    /\ stop_event /\ btPc = "loop" => ~ENABLED StartUnit

\* C26: every run reaches the end of the loop with a record for each unit
\* that was started.
C26_BatchTerminates ==
    <>(btPc = "end" /\ Len(test_results) = started)

\* every run comes to a stop: at the end of the loop or in an exception
BatchStops == <>BatchOver

\* C27: no step of the batch changes the submissions tree, and no step
\* changes or removes a working directory other than the one of the unit in
\* progress; the extraction makes a new one and leaves all that exist.
C27_FrameOfBatch ==
    [][/\ subsDisk' = subsDisk
       /\ \A n \in DOMAIN tempDirs :
              (btPc = "extract" \/ n # unit_path) =>
                  /\ n \in DOMAIN tempDirs'
                  /\ tempDirs'[n] = tempDirs[n]]_vars

C27_Witness ==
    /\ btPc = "end"
    /\ Len(test_results) = 2
    /\ units[1].student_id = units[2].student_id
    /\ test_results[1].extraction /\ test_results[2].extraction
    /\ test_results[2].compilation
    /\ DOMAIN tempDirs = {"A_1", "A_2", "A_3"}
    /\ tempDirs["A_1"] = LeftoverTree

\* the tree that test_submission discovers the files of the u-th unit in
\* when the unit is the first of a run
AloneTree(u) ==
    StripPackages(ExtractInto(EmptyTree,
                              subsDisk[<<units[u].student_id,
                                         units[u].name>>]).tree,
                  remove_packages)

\* the run targets of the u-th unit when it is the first of a run
AloneTargets(u) ==
    {entry_stage(AloneTree(u), java_files, replace_main_file,
                 normalize_filenames, MasterClass).cls :
         java_files \in find_java_files(AloneTree(u))}

\* C28: the class name handed to run_app for a unit is the one the unit
\* gets when it is processed first, with main_class_name as the constructor
\* set it: it depends on the unit's content and on the flags, not on the
\* units processed before it.
C28_RunTargetOfUnitAlone ==
    \A i \in DOMAIN trace :
        trace[i].stage = "run" =>
            trace[i].target \in AloneTargets(trace[i].unit)

C28_Witness ==
    \E i, j \in DOMAIN trace :
        /\ trace[i].stage = "run" /\ trace[j].stage = "run"
        /\ trace[i].unit = 1 /\ trace[j].unit = 2
        /\ trace[i].target # MasterClass
        /\ trace[j].target = MasterClass

\* the stage flags and the status of record r
StatusOf(r) ==
    /\ r.overall_status \in {"PASSED", "FAILED"}
    /\ r.overall_status = "PASSED" <=>
           /\ r.extraction
           /\ r.compilation
           /\ r.execution
           /\ ~expected_output \/ r.output_validation = "passed"
    /\ r.compilation => r.extraction
    /\ r.execution => r.compilation
    /\ r.output_validation # "none" => r.execution /\ expected_output

\* C29: a record is PASSED exactly when extraction, compilation and
\* execution succeeded and either no expected output was given or the
\* comparison matched, and FAILED otherwise; the execution flag is set
\* exactly for a run that exited with status 0; a stage's flag is set only
\* if the flags of the stages before it are.
C29_OverallStatus ==
    \A u \in DOMAIN test_results :
        /\ StatusOf(test_results[u])
        /\ test_results[u].execution <=>
               /\ Len(UnitCalls(u)) >= 4
               /\ units[u].fate \notin RunFailures

C29_Witness ==
    /\ btPc = "end"
    /\ \E u \in DOMAIN test_results :
           test_results[u].overall_status = "PASSED"
    /\ \E u \in DOMAIN test_results :
           /\ test_results[u].execution
           /\ test_results[u].overall_status = "FAILED"

====
